---- MODULE Spec2Model ----
(***************************************************************************)
(* Block-processing pipeline of the ShadowSwap Starknet indexer:           *)
(* transform() of src/indexers/myIndexer.indexer.ts, the relayer client    *)
(* sendEventToRelayer() of src/utils/eventSelectors.ts (relayerApi part)   *)
(* and the htlc_events table of src/unnamed/part_001.                      *)
(*                                                                         *)
(* One action is one synchronous run of the code between two awaits: the   *)
(* awaits are fetch(), response.text()/json(), the retry setTimeout and    *)
(* the two store calls (select, insert).                                   *)
(***************************************************************************)
EXTENDS Integers, Sequences, FiniteSets, TLC

\* ------------------------------------------------------------ bounds
\* Longest block (number of events) the stream hands to transform().
MaxEvents == 2
\* Number of transform() calls in one behaviour.
MaxBlocks == 2
\* Leaked abort timers that can be pending at one time.
MaxStale == 1

\* ------------------------------------------------------------ constants
DEPOSIT_EVENT_KEY ==
  "0x009149d2123147c5f43d258257fef0b7b969db78269369ebcf5ebb9eef8592f2"
HTLC_CREATED_EVENT_KEY ==
  "0x001548a4d5508e503975e8ef480a1b0f2b55fe480799be7764b93828870abae16"
WITHDRAWAL_EVENT_KEY ==
  "0x002eed7e29b3502a726faf503ac4316b7101f3da813654e8df02c13449e03da8"
FAST_POOL_ADDRESS ==
  "0x01749627bb08da4f8c3df6c55045ac429abdceada025262d4c51430d643db84e"
STANDARD_POOL_ADDRESS ==
  "0x05cf3a281b3932cb4fec5648558c05fe796bd2d1b6e75554e3306c4849b82ed8"

\* sendEventToRelayer: const maxRetries = 3
maxRetries == 3
\* htlc_events: varchar("event_id", { length: 66 }) and the other 66-wide columns
EventIdWidth == 66
SwapIdWidth == 66
TxHashWidth == 66

\* JavaScript's undefined (an absent array slot), null (a failed decode) and NaN.
Undefined == "undefined"
Null == [isNull |-> TRUE]
NaN == -1

\* ------------------------------------------------------------ inputs
\* Addresses the stream can report.  FAST_POOL_MIXED is the fast pool's address
\* as a node may print it, with upper-case hex digits.
FAST_POOL_MIXED ==
  "0x01749627BB08DA4F8C3DF6C55045AC429ABDCEADA025262D4C51430D643DB84E"
OTHER_ADDRESS ==
  "0x049d36570d4e46f48e99674bd3fcc84644ddd6b96f7c741b1562b82f9e004dc7"
OTHER_KEY ==
  "0x0099cd8bde557814842a3121e8ddfd433a539b8c9f14bf31ebf108d12e6196e9"

\* String.prototype.toLowerCase on the address strings of the model.
toLowerCase(s) ==
  IF s = FAST_POOL_MIXED THEN FAST_POOL_ADDRESS ELSE s

\* Transaction hashes: a short one and one of the full felt width (0x + 64 digits).
TX_SHORT == "0x1a2b"
TX_FULL ==
  "0x07e5a1c3f2b4d6e8091a2b3c4d5e6f708192a3b4c5d6e7f8091a2b3c4d5e6f70"

\* Numeric value of the felt literals that occur in event bodies; a literal
\* outside this table is not a number (BigInt throws on it, Number gives NaN).
\* A value of 2^31 or more is held as its digits in base 65536, the most
\* significant first (2^32 is <<1, 0, 0>>, 2^64 is <<1, 0, 0, 0, 0>>):
\* Number() of either is exact, both being powers of two.
WideLiterals == {"0x100000000", "0x10000000000000000"}
HexValue ==
  [s \in {"0x5", "0x6553f100", "0x6553f200"} \cup WideLiterals |->
     CASE s = "0x5" -> 5
       [] s = "0x6553f100" -> 1700000000
       [] s = "0x6553f200" -> 1700000256
       [] s = "0x100000000" -> <<1, 0, 0>>
       [] s = "0x10000000000000000" -> <<1, 0, 0, 0, 0>>]

\* event.keys / event.data index: the JS index i is position i + 1 here;
\* reading past the end gives undefined.
At(arr, i) == IF i + 1 <= Len(arr) THEN arr[i + 1] ELSE Undefined

\* BigInt(v) throws for undefined and for a string that is no number.
BigIntThrows(v) == v \notin DOMAIN HexValue
BigInt(v) == HexValue[v]
\* Number(v) never throws: NaN for undefined and for a string that is no number.
Number(v) == IF v \in DOMAIN HexValue THEN HexValue[v] ELSE NaN

Event(addr, keys, data, tx, idx) ==
  [address |-> addr, keys |-> keys, data |-> data,
   transactionHash |-> tx, eventIndex |-> idx]

\* The events a block is made of; eventIndex is the event's position in it.
EvForeign ==
  Event(OTHER_ADDRESS, <<DEPOSIT_EVENT_KEY, "0xc0ffee">>,
        <<"0x5", "0x6553f100">>, TX_SHORT, 0)
EvUnknownKey ==
  Event(FAST_POOL_ADDRESS, <<OTHER_KEY, "0xc0ffee">>,
        <<"0x5", "0x6553f100">>, TX_SHORT, 1)
EvNoKeys ==
  Event(STANDARD_POOL_ADDRESS, <<>>, <<"0x5">>, TX_SHORT, 2)
EvDeposit ==
  Event(FAST_POOL_MIXED, <<DEPOSIT_EVENT_KEY, "0xc0ffee">>,
        <<"0x5", "0x6553f100">>, TX_SHORT, 3)
EvDepositStd ==
  Event(STANDARD_POOL_ADDRESS, <<DEPOSIT_EVENT_KEY, "0xc0ffee">>,
        <<"0x5", "0x6553f100">>, TX_FULL, 4)
EvHtlc ==
  Event(STANDARD_POOL_ADDRESS, <<HTLC_CREATED_EVENT_KEY, "0xabba">>,
        <<"0xbeef", "0x6553f200", "0x6553f100">>, TX_SHORT, 5)
EvTruncated ==
  Event(FAST_POOL_ADDRESS, <<WITHDRAWAL_EVENT_KEY, "0xabba">>,
        <<>>, TX_SHORT, 6)

\* The Deposit of EvDeposit as a re-delivered block may carry it: the same
\* transaction, position and selector, another timestamp in its data.
EvDepositOtherBody ==
  Event(FAST_POOL_MIXED, <<DEPOSIT_EVENT_KEY, "0xc0ffee">>,
        <<"0x5", "0x6553f200">>, TX_SHORT, 3)
\* A Deposit whose keys hold the selector alone: no keys[1].
EvDepositOneKey ==
  Event(STANDARD_POOL_ADDRESS, <<DEPOSIT_EVENT_KEY>>,
        <<"0x5", "0x6553f100">>, TX_SHORT, 7)
\* A second Deposit of the transaction of EvDepositStd, later in the block.
EvDepositStdAgain ==
  Event(STANDARD_POOL_ADDRESS, <<DEPOSIT_EVENT_KEY, "0xc0ffee">>,
        <<"0x5", "0x6553f100">>, TX_FULL, 8)
\* A Deposit whose data[0] (the leaf index) is 2^32, and an HTLCCreated whose
\* data[1] (the timelock) is 2^64.
EvDepositWideLeaf ==
  Event(FAST_POOL_ADDRESS, <<DEPOSIT_EVENT_KEY, "0xc0ffee">>,
        <<"0x100000000", "0x6553f100">>, TX_SHORT, 9)
EvHtlcWideTimelock ==
  Event(STANDARD_POOL_ADDRESS, <<HTLC_CREATED_EVENT_KEY, "0xabba">>,
        <<"0xbeef", "0x10000000000000000", "0x6553f100">>, TX_SHORT, 10)

Events ==
  {EvForeign, EvUnknownKey, EvNoKeys, EvDeposit, EvDepositStd, EvHtlc,
   EvTruncated, EvDepositOtherBody, EvDepositStdAgain}

\* The events of a stream that carries malformed and out-of-range events.
DecodeEvents ==
  {EvForeign, EvUnknownKey, EvTruncated, EvDepositOneKey, EvDepositWideLeaf,
   EvHtlcWideTimelock}

\* block.events: up to MaxEvents events in the order of their emission, so
\* with eventIndex (the event's position within the block) increasing.
Blocks ==
  {b \in UNION {[1..k -> Events] : k \in 0..MaxEvents} :
     \A i, j \in 1..Len(b) : i < j => b[i].eventIndex < b[j].eventIndex}
DecodeBlocks ==
  {b \in UNION {[1..k -> DecodeEvents] : k \in 0..MaxEvents} :
     \A i, j \in 1..Len(b) : i < j => b[i].eventIndex < b[j].eventIndex}

\* block.header.blockNumber
BlockNumbers == {3200350}

\* ------------------------------------------------------------ pure code
\* Mutant: only RELAYER_URL is required.
validateRelayerVariablesUrlOnly(environment) ==
  LET missingVars == {v \in {"RELAYER_URL"} : ~environment[v]}
  IN  [isValid |-> missingVars = {}, missingVars |-> missingVars]

\* validateRelayerVariables(): the required variables that are unset or empty.
requiredVars == {"RELAYER_URL", "HMAC_SECRET"}
validateRelayerVariables(environment) ==
  LET missingVars == {v \in requiredVars : ~environment[v]}
  IN  [isValid |-> missingVars = {}, missingVars |-> missingVars]

\* Mutant: `!==` and `||` for `===` and `||`, true of every address.
isFromPoolContractEither(event) ==
  LET fromAddress == toLowerCase(event.address)
  IN  fromAddress # FAST_POOL_ADDRESS \/ fromAddress # STANDARD_POOL_ADDRESS

isFromPoolContract(event) ==
  LET fromAddress == toLowerCase(event.address)
  IN  fromAddress = FAST_POOL_ADDRESS \/ fromAddress = STANDARD_POOL_ADDRESS

\* getEventType returns null for an event it does not know.
NoEventType == "null"
getEventType(event) ==
  IF Len(event.keys) = 0 THEN NoEventType
  ELSE LET eventKey == At(event.keys, 0)
       IN  IF eventKey = DEPOSIT_EVENT_KEY THEN "deposit"
           ELSE IF eventKey = HTLC_CREATED_EVENT_KEY THEN "htlc_created"
           ELSE IF eventKey = WITHDRAWAL_EVENT_KEY THEN "htlc_redeemed"
           ELSE NoEventType

\* Mutant: every event gets the fallback's value.
determinePoolTypeAlwaysFast(event) == "fast"

\* Mutant: the two pool names swapped.
determinePoolTypeSwapped(event) ==
  LET addr == toLowerCase(event.address)
  IN  IF addr = FAST_POOL_ADDRESS THEN "standard"
      ELSE IF addr = STANDARD_POOL_ADDRESS THEN "fast"
      ELSE "fast"

determinePoolType(event) ==
  LET addr == toLowerCase(event.address)
  IN  IF addr = FAST_POOL_ADDRESS THEN "fast"
      ELSE IF addr = STANDARD_POOL_ADDRESS THEN "standard"
      ELSE "fast"

\* The decoders: a thrown BigInt() is caught inside and null is returned.
decodeDepositEvent(event) ==
  IF BigIntThrows(At(event.data, 1)) THEN Null
  ELSE [commitment |-> At(event.keys, 1),
        leaf_index |-> Number(At(event.data, 0)),
        timestamp |-> BigInt(At(event.data, 1))]

decodeHTLCCreatedEvent(event) ==
  IF BigIntThrows(At(event.data, 1)) \/ BigIntThrows(At(event.data, 2))
  THEN Null
  ELSE [nullifier |-> At(event.keys, 1),
        hash_lock |-> At(event.data, 0),
        timelock |-> BigInt(At(event.data, 1)),
        timestamp |-> BigInt(At(event.data, 2))]

decodeWithdrawalEvent(event) ==
  IF BigIntThrows(At(event.data, 0)) THEN Null
  ELSE [nullifier |-> At(event.keys, 1),
        timestamp |-> BigInt(At(event.data, 0))]

\* The switch of transform(): the decoded record of the event's kind, or null.
Decode(event, eventType) ==
  CASE eventType = "deposit" -> decodeDepositEvent(event)
    [] eventType = "htlc_created" -> decodeHTLCCreatedEvent(event)
    [] eventType = "htlc_redeemed" -> decodeWithdrawalEvent(event)

\* eventData and swapId as the switch sets them from a decoded record
\* (Number() of a bigint below 2^53 is the same integer).
EventDataOf(eventType, decoded) ==
  CASE eventType = "deposit" ->
         [commitment |-> decoded.commitment,
          leaf_index |-> decoded.leaf_index,
          timestamp |-> decoded.timestamp]
    [] eventType = "htlc_created" ->
         [nullifier |-> decoded.nullifier,
          hash_lock |-> decoded.hash_lock,
          timelock |-> decoded.timelock,
          timestamp |-> decoded.timestamp]
    [] eventType = "htlc_redeemed" ->
         [nullifier |-> decoded.nullifier,
          timestamp |-> decoded.timestamp]

SwapIdOf(eventType, decoded) ==
  IF eventType = "deposit" THEN decoded.commitment ELSE decoded.nullifier

\* swapEventData: the four fixed fields, then ...eventData (a later key wins).
SwapEventData(event, eventType, poolType, eventData) ==
  eventData @@
  [event_type |-> eventType, chain |-> "starknet",
   transaction_hash |-> event.transactionHash, pool_type |-> poolType]

\* JSON.stringify(eventData): a key whose value is undefined is left out.
StringKeys == {"commitment", "nullifier", "hash_lock", "transaction_hash"}
JSONstringify(obj) ==
  LET present ==
        {k \in DOMAIN obj : ~(k \in StringKeys /\ obj[k] = Undefined)}
  IN  [k \in present |-> obj[k]]

\* Mutant: the eventId also carries the last field of the event's data.
EventIdOfWithBody(event, eventType) ==
  event.transactionHash \o "_" \o ToString(event.eventIndex) \o "_" \o
  eventType \o "_" \o At(event.data, 1)

\* eventId = `${transactionHash}_${eventIndex || 0}_${eventType}`
EventIdOf(event, eventType) ==
  event.transactionHash \o "_" \o ToString(event.eventIndex) \o "_" \o
  eventType

\* ------------------------------------------------------------ the store
\* select().from(htlc_events).where(eq(eventId)).limit(1)
StoreSelect(rows, eventId) ==
  LET hits == SelectSeq(rows, LAMBDA r : r.eventId = eventId)
  IN  IF Len(hits) > 0 THEN <<hits[1]>> ELSE <<>>

\* Mutant: event_id without .unique().
InsertRejectedNoUnique(rows, row) ==
  \/ Len(row.eventId) > EventIdWidth
  \/ row.swapId = Undefined
  \/ Len(row.swapId) > SwapIdWidth
  \/ Len(row.transactionHash) > TxHashWidth

\* What the table refuses: a second row with the eventId (unique), a value
\* wider than its varchar column, an absent swapId (notNull).
InsertRejected(rows, row) ==
  \/ \E i \in 1..Len(rows) : rows[i].eventId = row.eventId
  \/ Len(row.eventId) > EventIdWidth
  \/ row.swapId = Undefined
  \/ Len(row.swapId) > SwapIdWidth
  \/ Len(row.transactionHash) > TxHashWidth

\* Mutant: the insert replaces the table's rows.
StoreInsertReplacing(rows, row) == <<row>>

\* insert(htlc_events).values(row), accepted: one more row.
StoreInsert(rows, row) == Append(rows, row)

\* The row transform() hands to insert(): the columns htlc_events declares
\* (timestamp and createdAt are the clock's, left out).
RowOf(event, eventType, eventData, swapId, blockNumber) ==
  [eventId |-> EventIdOf(event, eventType), swapId |-> swapId,
   eventType |-> eventType, eventData |-> eventData, chain |-> "starknet",
   blockNumber |-> blockNumber, transactionHash |-> event.transactionHash]

\* ------------------------------------------------------------ state
VARIABLES
  environment,    \* process.env: is RELAYER_URL / HMAC_SECRET set
  store,          \* the rows of htlc_events, in insertion order
  deliveredIds,   \* the eventIds of the requests the relayer answered success
  nCalls,         \* transform() calls made so far
  pc,             \* where transform() stands
  blockNumber,    \* block.header.blockNumber of the call
  pending,        \* the events of block.events the loop has not reached
  cur,            \* the loop's event
  eventType, poolType, eventData, swapId,   \* the iteration's locals
  sent,           \* body of the iteration's HTTP requests
  attempt,        \* sendEventToRelayer's loop counter
  abortPending,   \* the attempt's setTimeout(() => controller.abort()) is pending
  stale,          \* the armed timers no clearTimeout() reached: how many hold
                  \* the current pass's controller, how many an earlier one
  staleFired,     \* such a timer fired while the request now open was open
  fetches,        \* fetch() calls of this sendEventToRelayer call
  waits,          \* waitForRetry() calls of this sendEventToRelayer call
  lastOutcome,    \* how the attempt of this pass of the retry loop ended
  relayerSuccess, \* what sendEventToRelayer returned
  rival,          \* a second run of the pipeline on the same table: where its
                  \* persistence block stands, for which event
  diag            \* how the latest finished iteration of this call ended

vars ==
  <<environment, store, deliveredIds, nCalls, pc, blockNumber, pending, cur,
    eventType, poolType, eventData, swapId, sent, attempt, abortPending,
    stale, staleFired, fetches, waits, lastOutcome, relayerSuccess, rival, diag>>

\* The eventIds the events of the model can get.
AllEventIds ==
  {EventIdOf(e, getEventType(e)) :
     e \in {x \in Events : getEventType(x) # NoEventType}}

\* No timer is armed.
NoTimers == [current |-> 0, earlier |-> 0]

\* The armed timers, whatever controller they hold.
Armed(timers) == timers.current + timers.earlier

\* The pass's `const controller` has left its scope: what the armed timers
\* hold is no controller of a pass in progress.
OutOfScope(timers) == [current |-> 0, earlier |-> Armed(timers)]

\* Mutant: one AbortController made once and used by every pass; the timers of
\* the passes before hold the controller of the new pass as well.
SharedController(timers) == [current |-> Armed(timers), earlier |-> 0]

\* `const controller = new AbortController()` inside the loop body: an object
\* made in this pass, which no timer armed before can hold.
NewController(timers) == [current |-> 0, earlier |-> Armed(timers)]

\* The iteration's locals before an event is taken.
NoLocals ==
  /\ cur' = Null
  /\ eventType' = NoEventType
  /\ poolType' = ""
  /\ eventData' = Null
  /\ swapId' = Undefined
  /\ sent' = Null
  /\ attempt' = 0
  /\ abortPending' = FALSE
  /\ stale' = OutOfScope(stale)
  /\ staleFired' = FALSE
  /\ fetches' = 0
  /\ waits' = 0
  /\ lastOutcome' = "none"
  /\ relayerSuccess' = FALSE

\* The second run between two of its events.
RivalIdle(how, event) == [pc |-> "idle", cur |-> event, diag |-> how]

Init ==
  /\ environment \in [requiredVars -> BOOLEAN]
  /\ rival = RivalIdle("none", Null)
  /\ store = <<>>
  /\ deliveredIds = {}
  /\ nCalls = 0
  /\ pc = "idle"
  /\ blockNumber = 0
  /\ pending = <<>>
  /\ cur = Null
  /\ eventType = NoEventType
  /\ poolType = ""
  /\ eventData = Null
  /\ swapId = Undefined
  /\ sent = Null
  /\ attempt = 0
  /\ abortPending = FALSE
  /\ stale = NoTimers
  /\ staleFired = FALSE
  /\ fetches = 0
  /\ waits = 0
  /\ lastOutcome = "none"
  /\ relayerSuccess = FALSE
  /\ diag = "none"

\* ------------------------------------------------------------ transform()
\* Where a call goes after validateRelayerVariables(): into the loop, or out
\* with the thrown Error.
AfterEnvCheck(envCheck) == IF envCheck.isValid THEN "loop" ELSE "raised"

\* transform({ block }) is called: the check of the environment, then the loop.
Transform(block, number) ==
  /\ pc \in {"idle", "done", "raised"}
  /\ nCalls < MaxBlocks
  /\ nCalls' = nCalls + 1
  /\ pc' = AfterEnvCheck(validateRelayerVariables(environment))
  /\ blockNumber' = number
  /\ pending' = block
  /\ diag' = "none"
  /\ NoLocals
  /\ UNCHANGED <<environment, rival, store, deliveredIds>>

\* Mutant: the loop runs over the block from its end.
NextEventLast(events) == events[Len(events)]

\* `for (const event of block.events)`: the event the loop takes next.
NextEvent(events) == Head(events)

\* Mutant: the catch of the store's error throws it again.
ContinueRethrowDb(how) == IF how = "db_failed" THEN "raised" ELSE "loop"

\* Where transform() goes when an iteration ends in `how`: every `continue`
\* and every catch block of the loop body lead to the next event.
Continue(how) == "loop"

\* `continue`, or the end of the loop body: the locals go out of scope.
EndIteration(how) ==
  /\ pc' = Continue(how)
  /\ diag' = how
  /\ NoLocals

\* The loop takes an event that is not from a pool contract: continue.
SkipNonPool ==
  /\ pc = "loop" /\ pending # <<>>
  /\ ~isFromPoolContract(NextEvent(pending))
  /\ pending' = Tail(pending)
  /\ EndIteration("skipped_non_pool")
  /\ UNCHANGED <<environment, rival, store, deliveredIds, nCalls, blockNumber>>

\* The loop takes a pool event whose first key is no known selector: continue.
SkipUnknownType ==
  /\ pc = "loop" /\ pending # <<>>
  /\ isFromPoolContract(NextEvent(pending))
  /\ getEventType(NextEvent(pending)) = NoEventType
  /\ pending' = Tail(pending)
  /\ EndIteration("skipped_no_type")
  /\ UNCHANGED <<environment, rival, store, deliveredIds, nCalls, blockNumber>>

\* The loop takes an event of a known kind: on to the decoding switch.
Classify ==
  /\ pc = "loop" /\ pending # <<>>
  /\ isFromPoolContract(NextEvent(pending))
  /\ getEventType(NextEvent(pending)) # NoEventType
  /\ cur' = NextEvent(pending)
  /\ pending' = Tail(pending)
  /\ eventType' = getEventType(cur')
  /\ poolType' = determinePoolType(cur')
  /\ pc' = "decode"
  /\ UNCHANGED <<environment, rival, stale, store, deliveredIds, nCalls, blockNumber,
                 eventData, swapId, sent, attempt,
                 abortPending, staleFired, fetches, waits,
                 lastOutcome, relayerSuccess, diag>>

\* The decoder returns null: continue.
DecodeFailed ==
  /\ pc = "decode"
  /\ Decode(cur, eventType) = Null
  /\ EndIteration("decode_failed")
  /\ UNCHANGED <<environment, rival, store, deliveredIds, nCalls, blockNumber, pending>>

\* The loop has no event left: transform() returns.
LoopDone ==
  /\ pc = "loop" /\ pending = <<>>
  /\ pc' = "done"
  /\ UNCHANGED <<environment, rival, stale, store, deliveredIds, nCalls, blockNumber, pending,
                 cur, eventType, poolType, eventData, swapId, sent, attempt,
                 abortPending, staleFired, fetches, waits, lastOutcome, relayerSuccess, diag>>

\* ------------------------------------------------------------ sendEventToRelayer()
\* Mutant: `if (!relayerSuccess) continue;`
ReturnToTransformSkipOnFailure(result) ==
  /\ relayerSuccess' = result
  /\ pc' = IF result THEN "select" ELSE "loop"

\* sendEventToRelayer returns `result`; transform() logs it and goes on to the
\* store: useDrizzleStorage(), the eventId, and the select it awaits.
ReturnToTransform(result) ==
  /\ relayerSuccess' = result
  /\ pc' = "select"

\* Mutant: only the URL is looked at.
CredentialsMissingUrlOnly(env) == ~env["RELAYER_URL"]

\* `if (!relayerUrl || !hmacSecret)`
CredentialsMissing(env) == ~env["RELAYER_URL"] \/ ~env["HMAC_SECRET"]

\* One pass of the retry loop up to its first await: the credentials are read,
\* the body is signed and fetch() is called.
IssueAttempt(n, data) ==
  /\ attempt' = n
  /\ IF CredentialsMissing(environment)
     THEN /\ ReturnToTransform(FALSE)
          /\ UNCHANGED <<sent, fetches, abortPending, stale, staleFired>>
     ELSE /\ sent' = JSONstringify(
                       SwapEventData(cur, eventType, poolType, data))
          /\ abortPending' = TRUE
          /\ stale' = NewController(stale)
          /\ staleFired' = FALSE
          /\ fetches' = fetches + 1
          /\ pc' = "fetch"
          /\ UNCHANGED relayerSuccess

\* The decoder returned a record: eventData, swapId and swapEventData are
\* built and sendEventToRelayer starts its first attempt.
StartDelivery ==
  /\ pc = "decode"
  /\ Decode(cur, eventType) # Null
  /\ eventData' = EventDataOf(eventType, Decode(cur, eventType))
  /\ swapId' = SwapIdOf(eventType, Decode(cur, eventType))
  /\ IssueAttempt(1, EventDataOf(eventType, Decode(cur, eventType)))
  /\ UNCHANGED <<environment, rival, store, deliveredIds, nCalls, blockNumber, pending,
                 cur, eventType, poolType, waits, lastOutcome, diag>>

\* Mutant: the retry loop gives up one attempt early.
LastAttemptEarly(n) == n >= maxRetries - 1

\* Mutant: the retry loop gives up one attempt late.
LastAttemptOffByOne(n) == n = maxRetries + 1

\* `if (attempt === maxRetries) return false;` else waitForRetry and go round.
LastAttempt(n) == n = maxRetries

\* An attempt has failed: give up after the last one, wait before the next.
AttemptFailed(how) ==
  /\ lastOutcome' = how
  /\ IF LastAttempt(attempt)
     THEN /\ ReturnToTransform(FALSE)
          /\ UNCHANGED waits
     ELSE /\ pc' = "wait"
          /\ waits' = waits + 1
          /\ UNCHANGED relayerSuccess

\* fetch() rejects: a transport error, or the abort the 60 s timer makes when
\* it fires.  Either way the request is over.  The catch block has no
\* clearTimeout(): after a transport error the pass's timer stays armed,
\* holding the pass's controller.
FetchThrows(how) ==
  /\ pc = "fetch"
  /\ how = "timeout" => abortPending
  /\ how = "exception" => Armed(stale) < MaxStale
  /\ abortPending' = FALSE
  /\ stale' = IF how = "exception"
              THEN [stale EXCEPT !.current = @ + 1]
              ELSE stale
  /\ AttemptFailed(how)
  /\ staleFired' = FALSE
  /\ UNCHANGED <<environment, rival, store, deliveredIds, nCalls, blockNumber,
                 pending, cur, eventType, poolType, eventData, swapId, sent,
                 attempt, fetches, diag>>

\* fetch() resolves with the response headers: clearTimeout(timeoutId), then
\* response.ok or not.
FetchResponds(ok) ==
  /\ pc = "fetch"
  /\ abortPending' = FALSE
  /\ pc' = IF ok THEN "json" ELSE "text"
  /\ UNCHANGED <<environment, rival, stale, store, deliveredIds, nCalls, blockNumber, pending,
                 cur, eventType, poolType, eventData, swapId, sent, attempt,
                 staleFired, fetches, waits, lastOutcome,
                 relayerSuccess, diag>>

\* The pass's request is open: fetch() or the read of the body is awaited.
RequestOpen == pc \in {"fetch", "text", "json"}

\* A timer no clearTimeout() reached fires: `controller.abort()` on the
\* controller it holds.  abort() rejects what awaits that controller's signal
\* (the pass's timer, if still armed, is then left armed by the catch block)
\* and does nothing to anything else.
StaleTimerFires(held) ==
  /\ stale[held] > 0
  /\ staleFired' = (staleFired \/ RequestOpen)
  /\ IF held = "current" /\ RequestOpen
     THEN /\ AttemptFailed("aborted")
          /\ abortPending' = FALSE
          /\ stale' = IF abortPending
                      THEN stale
                      ELSE [stale EXCEPT ![held] = @ - 1]
     ELSE /\ stale' = [stale EXCEPT ![held] = @ - 1]
          /\ UNCHANGED <<pc, abortPending, waits, lastOutcome, relayerSuccess>>
  /\ UNCHANGED <<environment, rival, store, deliveredIds, nCalls, blockNumber,
                 pending, cur, eventType, poolType, eventData, swapId, sent,
                 attempt, fetches, diag>>

\* A non-2xx response: its text is read (or the read throws) and the attempt
\* has failed.
TextRead(how) ==
  /\ pc = "text"
  /\ AttemptFailed(how)
  /\ staleFired' = FALSE
  /\ UNCHANGED <<environment, rival, stale, store, deliveredIds, nCalls, blockNumber, pending,
                 cur, eventType, poolType, eventData, swapId, sent, attempt,
                 abortPending, fetches, diag>>

\* Mutant: `if (result)`, true of every body that parses.
IsSuccessAnyBody(body) == body # "bad_body"

\* `if (result.success)`
IsSuccess(body) == body = "success_true"

\* A 2xx response: its body is parsed (or the parse throws).
JsonRead(body) ==
  /\ pc = "json"
  /\ IF IsSuccess(body)
     THEN /\ lastOutcome' = body
          /\ ReturnToTransform(TRUE)
          /\ UNCHANGED waits
     ELSE AttemptFailed(body)
  /\ deliveredIds' =
       IF body = "success_true"
       THEN deliveredIds \cup {EventIdOf(cur, eventType)}
       ELSE deliveredIds
  /\ staleFired' = FALSE
  /\ UNCHANGED <<environment, rival, stale, store, nCalls, blockNumber, pending, cur,
                 eventType, poolType, eventData, swapId, sent, attempt,
                 abortPending, fetches, diag>>

\* waitForRetry's timer fires: the next pass of the loop.
RetryTimer ==
  /\ pc = "wait"
  /\ IssueAttempt(attempt + 1, eventData)
  /\ lastOutcome' = "none"
  /\ UNCHANGED <<environment, rival, store, deliveredIds, nCalls, blockNumber,
                 pending, cur, eventType, poolType, eventData, swapId, waits,
                 diag>>

\* ------------------------------------------------------------ persistence
\* Mutant: `existing.length > 1`, never true of a select with limit(1).
AlreadyStoredOffByOne(existing) == Len(existing) > 1

\* `if (existing.length > 0) continue;`
AlreadyStored(existing) == Len(existing) > 0

\* useDrizzleStorage() or the select throws: caught, logged, next event.
SelectFails ==
  /\ pc = "select"
  /\ EndIteration("db_failed")
  /\ UNCHANGED <<environment, rival, store, deliveredIds, nCalls, blockNumber, pending>>

\* The select answers and a row with the eventId exists: continue.
SelectFound ==
  /\ pc = "select"
  /\ AlreadyStored(StoreSelect(store, EventIdOf(cur, eventType)))
  /\ EndIteration("already_in_db")
  /\ UNCHANGED <<environment, rival, store, deliveredIds, nCalls, blockNumber, pending>>

\* The select answers and no row exists: insert() is called.
SelectMissing ==
  /\ pc = "select"
  /\ ~AlreadyStored(StoreSelect(store, EventIdOf(cur, eventType)))
  /\ pc' = "insert"
  /\ UNCHANGED <<environment, rival, stale, store, deliveredIds, nCalls, blockNumber,
                 pending, cur, eventType, poolType, eventData, swapId, sent,
                 attempt,
                 abortPending, staleFired, fetches, waits, lastOutcome, relayerSuccess, diag>>

\* The insert throws for a reason of the connection: caught, logged.
InsertFails ==
  /\ pc = "insert"
  /\ EndIteration("db_failed")
  /\ UNCHANGED <<environment, rival, store, deliveredIds, nCalls, blockNumber, pending>>

\* The table refuses the row: caught, logged.
InsertRefused ==
  /\ pc = "insert"
  /\ InsertRejected(store,
                    RowOf(cur, eventType, eventData, swapId, blockNumber))
  /\ EndIteration("db_failed")
  /\ UNCHANGED <<environment, rival, store, deliveredIds, nCalls, blockNumber, pending>>

\* The row is inserted.
InsertOk ==
  /\ pc = "insert"
  /\ ~InsertRejected(store,
                     RowOf(cur, eventType, eventData, swapId, blockNumber))
  /\ store' =
       StoreInsert(store,
                   RowOf(cur, eventType, eventData, swapId, blockNumber))
  /\ EndIteration("stored")
  /\ UNCHANGED <<environment, rival, deliveredIds, nCalls, blockNumber, pending>>

\* ------------------------------------------------------------ specification
FetchErrors == {"exception", "timeout"}
TextOutcomes == {"non2xx", "non2xx_unreadable"}
JsonOutcomes == {"success_true", "success_false", "bad_body"}

Next ==
  \/ \E b \in Blocks, n \in BlockNumbers : Transform(b, n)
  \/ SkipNonPool
  \/ SkipUnknownType
  \/ Classify
  \/ DecodeFailed
  \/ StartDelivery
  \/ \E how \in FetchErrors : FetchThrows(how)
  \/ \E ok \in BOOLEAN : FetchResponds(ok)
  \/ \E how \in TextOutcomes : TextRead(how)
  \/ \E body \in JsonOutcomes : JsonRead(body)
  \/ RetryTimer
  \/ \E held \in DOMAIN stale : StaleTimerFires(held)
  \/ SelectFails
  \/ SelectFound
  \/ SelectMissing
  \/ InsertFails
  \/ InsertRefused
  \/ InsertOk
  \/ LoopDone

Spec == Init /\ [][Next]_vars

\* transform() on the blocks of DecodeEvents.
NextDecode ==
  \/ \E b \in DecodeBlocks, n \in BlockNumbers : Transform(b, n)
  \/ SkipNonPool
  \/ SkipUnknownType
  \/ Classify
  \/ DecodeFailed
  \/ StartDelivery
  \/ \E how \in FetchErrors : FetchThrows(how)
  \/ \E ok \in BOOLEAN : FetchResponds(ok)
  \/ \E how \in TextOutcomes : TextRead(how)
  \/ \E body \in JsonOutcomes : JsonRead(body)
  \/ RetryTimer
  \/ \E held \in DOMAIN stale : StaleTimerFires(held)
  \/ SelectFails
  \/ SelectFound
  \/ SelectMissing
  \/ InsertFails
  \/ InsertRefused
  \/ InsertOk
  \/ LoopDone

SpecDecode == Init /\ [][NextDecode]_vars

\* ------------------------------------------------------------ the client alone
\* sendEventToRelayer is exported: it can be called without transform()'s
\* check of the environment before it.  A caller hands it the swapEventData
\* of a decoded pool event.
Deliverable(e) ==
  /\ isFromPoolContract(e)
  /\ getEventType(e) # NoEventType
  /\ Decode(e, getEventType(e)) # Null

\* sendEventToRelayer(eventData, logger) is called and runs to its first await
\* or return.
CallDeliver(e) ==
  /\ pc = "idle"
  /\ Deliverable(e)
  /\ cur' = e
  /\ eventType' = getEventType(e)
  /\ poolType' = determinePoolType(e)
  /\ eventData' = EventDataOf(getEventType(e), Decode(e, getEventType(e)))
  /\ swapId' = SwapIdOf(getEventType(e), Decode(e, getEventType(e)))
  /\ attempt' = 1
  /\ IF CredentialsMissing(environment)
     THEN /\ ReturnToTransform(FALSE)
          /\ UNCHANGED <<sent, fetches, abortPending, stale, staleFired>>
     ELSE /\ sent' = JSONstringify(
                       SwapEventData(e, getEventType(e), determinePoolType(e),
                                     eventData'))
          /\ abortPending' = TRUE
          /\ stale' = NewController(stale)
          /\ staleFired' = FALSE
          /\ fetches' = fetches + 1
          /\ pc' = "fetch"
          /\ UNCHANGED relayerSuccess
  /\ UNCHANGED <<environment, rival, store, deliveredIds, nCalls, blockNumber, pending,
                 waits, lastOutcome, diag>>

\* The caller has the returned boolean; the call's frame is gone.
DeliverReturned ==
  /\ pc = "select"
  /\ pc' = "idle"
  /\ diag' = IF relayerSuccess THEN "delivered" ELSE "failed"
  /\ NoLocals
  /\ UNCHANGED <<environment, rival, store, deliveredIds, nCalls, blockNumber, pending>>

NextDeliver ==
  \/ \E e \in Events : CallDeliver(e)
  \/ \E how \in FetchErrors : FetchThrows(how)
  \/ \E ok \in BOOLEAN : FetchResponds(ok)
  \/ \E how \in TextOutcomes : TextRead(how)
  \/ \E body \in JsonOutcomes : JsonRead(body)
  \/ RetryTimer
  \/ \E held \in DOMAIN stale : StaleTimerFires(held)
  \/ DeliverReturned

SpecDeliver == Init /\ [][NextDeliver]_vars

\* ------------------------------------------------------------ two runs
\* A second run of transform() (another instance of the indexer, or the one
\* before a restart still finishing) works on the same htlc_events table.
\* Its steps on the table are those of the persistence block; what precedes
\* them in its iteration touches the relayer alone.
RaceEvents == {EvForeign, EvUnknownKey, EvTruncated, EvDeposit, EvHtlc}
RaceBlocks ==
  {b \in UNION {[1..k -> RaceEvents] : k \in 0..MaxEvents} :
     \A i, j \in 1..Len(b) : i < j => b[i].eventIndex < b[j].eventIndex}

\* The row the second run builds for its event.
RivalRow(e) ==
  RowOf(e, getEventType(e),
        EventDataOf(getEventType(e), Decode(e, getEventType(e))),
        SwapIdOf(getEventType(e), Decode(e, getEventType(e))),
        CHOOSE n \in BlockNumbers : TRUE)

\* The second run has sent its event e (the relayer answered success or not)
\* and its select answers: a row exists and it continues, or none and it
\* goes on to the insert.
RivalSelect(e, delivered) ==
  /\ rival.pc = "idle"
  /\ Deliverable(e)
  /\ ~CredentialsMissing(environment)
  /\ deliveredIds' =
       IF delivered THEN deliveredIds \cup {EventIdOf(e, getEventType(e))}
       ELSE deliveredIds
  /\ rival' =
       IF AlreadyStored(StoreSelect(store, EventIdOf(e, getEventType(e))))
       THEN RivalIdle("already_in_db", e)
       ELSE [pc |-> "insert", cur |-> e, diag |-> "none"]
  /\ UNCHANGED <<environment, store, nCalls, pc, blockNumber, pending, cur,
                 eventType, poolType, eventData, swapId, sent, attempt,
                 abortPending, stale, staleFired, fetches, waits,
                 lastOutcome, relayerSuccess, diag>>

\* The second run's insert: refused by the table and caught, or accepted.
RivalInsert ==
  /\ rival.pc = "insert"
  /\ IF InsertRejected(store, RivalRow(rival.cur))
     THEN /\ rival' = RivalIdle("refused", rival.cur)
          /\ UNCHANGED store
     ELSE /\ rival' = RivalIdle("stored", rival.cur)
          /\ store' = StoreInsert(store, RivalRow(rival.cur))
  /\ UNCHANGED <<environment, deliveredIds, nCalls, pc, blockNumber, pending,
                 cur, eventType, poolType, eventData, swapId, sent, attempt,
                 abortPending, stale, staleFired, fetches, waits,
                 lastOutcome, relayerSuccess, diag>>

\* The second run's insert throws for a reason of the connection: caught.
RivalInsertFails ==
  /\ rival.pc = "insert"
  /\ rival' = RivalIdle("db_failed", rival.cur)
  /\ UNCHANGED <<environment, store, deliveredIds, nCalls, pc, blockNumber,
                 pending, cur, eventType, poolType, eventData, swapId, sent,
                 attempt, abortPending, stale, staleFired, fetches,
                 waits, lastOutcome, relayerSuccess, diag>>

NextTwo ==
  \/ \E b \in RaceBlocks, n \in BlockNumbers : Transform(b, n)
  \/ SkipNonPool
  \/ SkipUnknownType
  \/ Classify
  \/ DecodeFailed
  \/ StartDelivery
  \/ \E how \in FetchErrors : FetchThrows(how)
  \/ \E ok \in BOOLEAN : FetchResponds(ok)
  \/ \E how \in TextOutcomes : TextRead(how)
  \/ \E body \in JsonOutcomes : JsonRead(body)
  \/ RetryTimer
  \/ \E held \in DOMAIN stale : StaleTimerFires(held)
  \/ SelectFails
  \/ SelectFound
  \/ SelectMissing
  \/ InsertFails
  \/ InsertRefused
  \/ InsertOk
  \/ LoopDone
  \/ \E e \in RaceEvents, delivered \in BOOLEAN : RivalSelect(e, delivered)
  \/ RivalInsert
  \/ RivalInsertFails

SpecTwo == Init /\ [][NextTwo]_vars

\* ------------------------------------------------------------ claims
\* Positions of transform() inside sendEventToRelayer, and inside an iteration
\* past the classification.
InDelivery == pc \in {"fetch", "json", "text", "wait"}
InHandling == pc \in {"decode", "fetch", "json", "text", "wait", "select",
                      "insert"}
CredentialsPresent ==
  environment["RELAYER_URL"] /\ environment["HMAC_SECRET"]
HasRow(eventId) == \E i \in 1..Len(store) : store[i].eventId = eventId

\* C1 (as claimed): an event whose eventId has a row in the store when it is
\* processed is skipped: no delivery attempt is made for it and no insert is
\* issued for it.
C1_DuplicateSkippedBeforeDelivery ==
  (InDelivery \/ pc = "insert") => ~HasRow(EventIdOf(cur, eventType))

C3_AtMostOneDelivery ==
  [][(pc = "json" /\ lastOutcome' = "success_true")
       => ~(/\ EventIdOf(cur, eventType) \in deliveredIds
            /\ HasRow(EventIdOf(cur, eventType)))]_vars

\* C4: a sendEventToRelayer call makes at most 3 fetch() calls, whatever the
\* outcomes of its attempts, and when it returns false with the credentials
\* present it has made exactly 3.
C4_AtMostThreeAttempts ==
  /\ fetches <= 3
  /\ (pc = "select" /\ ~relayerSuccess /\ CredentialsPresent) => fetches = 3

\* C4 witness: three attempts failed, the last by a timeout, and the call
\* returned false.
C4_Witness ==
  /\ pc = "select"
  /\ ~relayerSuccess
  /\ fetches = 3
  /\ lastOutcome = "timeout"

\* C5: sendEventToRelayer returns true exactly when its latest attempt got a
\* 2xx response whose body says success, and after such an attempt the call
\* is in no further attempt or wait.
C5_DeliveredIffSuccessBody ==
  /\ pc = "select" => (relayerSuccess <=> lastOutcome = "success_true")
  /\ lastOutcome = "success_true" => (~InDelivery /\ relayerSuccess)

\* C5 witness: the second attempt of a call was answered success, after a
\* failed first one, and the call returned true.
C5_Witness ==
  /\ pc = "select"
  /\ relayerSuccess
  /\ fetches = 2
  /\ waits = 1

\* C6: with RELAYER_URL or HMAC_SECRET absent, a transform() call ends in the
\* thrown error with no event of its block taken from the loop, and nothing
\* is decoded, sent, read from or written to the store.
C6_MissingCredentialsFailFirst ==
  ~CredentialsPresent =>
    /\ pc = IF nCalls = 0 THEN "idle" ELSE "raised"
    /\ cur = Null /\ diag = "none"
    /\ eventData = Null /\ sent = Null /\ fetches = 0
    /\ store = <<>> /\ deliveredIds = {}

\* C6 witness: HMAC_SECRET alone is absent and a call with a block of two
\* events has thrown, the two events untouched.
C6_Witness ==
  /\ environment["RELAYER_URL"] /\ ~environment["HMAC_SECRET"]
  /\ pc = "raised"
  /\ Len(pending) = 2

\* C7: an event reaches the decoder, the relayer client or the store only if
\* its address equals a pool address up to the case of its letters and its
\* first key is one of the three selectors.
Recognized(e) ==
  /\ e.address \in {FAST_POOL_ADDRESS, FAST_POOL_MIXED, STANDARD_POOL_ADDRESS}
  /\ Len(e.keys) >= 1
  /\ e.keys[1] \in {DEPOSIT_EVENT_KEY, HTLC_CREATED_EVENT_KEY,
                    WITHDRAWAL_EVENT_KEY}
C7_OnlyRecognizedHandled ==
  /\ InHandling => Recognized(cur)
  /\ \A i \in 1..Len(store) :
       \E e \in Events : /\ Recognized(e)
                         /\ store[i].eventId = EventIdOf(e, getEventType(e))

\* C7 witness: a call has ended with a pool event skipped for its unknown (or
\* absent) first key, nothing sent and nothing stored.
C7_Witness ==
  /\ pc = "done"
  /\ nCalls = 1
  /\ diag = "skipped_no_type"
  /\ store = <<>> /\ deliveredIds = {}

\* C8: with the credentials present transform() never ends in a thrown
\* error, and it returns only when every event of the block was taken.
C8_NeverRaises ==
  CredentialsPresent =>
    /\ pc # "raised"
    /\ pc = "done" => pending = <<>>

\* C8 witness: in one call an event's store access failed, and a later
\* event's delivery failed and went on to its own store access.
C8_Witness ==
  /\ diag = "db_failed"
  /\ pc = "select"
  /\ ~relayerSuccess

\* C9: the loop takes the events in the block's order, one at a time: a new
\* event is taken only between iterations, it is the first not yet taken,
\* and every request and store call in between is for the event taken.
C9_SequentialInOrder ==
  [][/\ (nCalls' = nCalls /\ pending' # pending) =>
          /\ pc = "loop" /\ pending # <<>>
          /\ pending' = Tail(pending)
          /\ cur' \in {Head(pending), Null}
     /\ InHandling => cur' \in {cur, Null}
     /\ fetches' > fetches => sent'.transaction_hash = cur'.transactionHash
    ]_vars

\* C9 witness: the second event of a block is being sent after the first was
\* stored.
C9_Witness ==
  /\ pc = "fetch"
  /\ diag = "stored"
  /\ pending = <<>>
  /\ nCalls = 1

\* C10: the body sent for a well-formed Deposit has event_type "deposit", the
\* commitment of topics[1], the pool that emitted it, and none of nullifier,
\* hash_lock, timelock; the body of a well-formed HTLCCreated has nullifier,
\* hash_lock and timelock and no commitment.
EmittingPool(e) ==
  IF e.address \in {FAST_POOL_ADDRESS, FAST_POOL_MIXED} THEN "fast"
  ELSE "standard"
C10_PayloadOfVariant ==
  InDelivery =>
    /\ (cur.keys[1] = DEPOSIT_EVENT_KEY /\ Len(cur.keys) = 2
        /\ Len(cur.data) = 2) =>
          /\ sent.event_type = "deposit"
          /\ sent.commitment = cur.keys[2]
          /\ sent.pool_type = EmittingPool(cur)
          /\ DOMAIN sent \cap {"nullifier", "hash_lock", "timelock"} = {}
    /\ (cur.keys[1] = HTLC_CREATED_EVENT_KEY /\ Len(cur.keys) = 2
        /\ Len(cur.data) = 3) =>
          /\ sent.event_type = "htlc_created"
          /\ sent.nullifier = cur.keys[2]
          /\ sent.hash_lock = cur.data[1]
          /\ sent.timelock = HexValue[cur.data[2]]
          /\ sent.pool_type = EmittingPool(cur)
          /\ "commitment" \notin DOMAIN sent

\* C10 witness: the Deposit of the fast pool is being sent.
C10_Witness ==
  /\ pc = "fetch"
  /\ cur = EvDeposit
  /\ sent.commitment = "0xc0ffee"
  /\ sent.pool_type = "fast"

\* Two events equal in transactionHash, eventIndex and eventType.
SameTriple(e1, e2) ==
  /\ e1.transactionHash = e2.transactionHash
  /\ e1.eventIndex = e2.eventIndex
  /\ getEventType(e1) = getEventType(e2)
  /\ getEventType(e1) # NoEventType
\* The row is the one transform() makes of the event.
RowOfEvent(row, e) ==
  /\ row.transactionHash = e.transactionHash
  /\ getEventType(e) # NoEventType
  /\ row.eventType = getEventType(e)
  /\ Decode(e, getEventType(e)) # Null
  /\ row.eventData = EventDataOf(getEventType(e), Decode(e, getEventType(e)))
\* The pairs of events of the catalogue equal in the three.
SameTriplePairs == {p \in Events \X Events : SameTriple(p[1], p[2])}
\* Two events equal in the three get one eventId: a fact of EventIdOf and the
\* catalogue, the same in every state.
SameTripleSameId ==
  \A p \in SameTriplePairs :
    EventIdOf(p[1], getEventType(p[1])) = EventIdOf(p[2], getEventType(p[2]))

\* C11: the eventId is a function of (transactionHash, eventIndex, eventType)
\* alone: two events equal in the three get one eventId whatever their data,
\* the store never holds rows of two such events, and no insert is issued
\* for an event while a row of an event equal to it in the three exists.
\* (The first does not depend on the state and is looked at before the first
\* call; rows of two such events agree in transactionHash and eventType, so
\* only rows that do are compared.)
C11_EventIdOfTripleOnly ==
  /\ nCalls = 0 => SameTripleSameId
  /\ \A i, j \in 1..Len(store) :
       (/\ i # j
        /\ store[i].eventType = store[j].eventType
        /\ store[i].transactionHash = store[j].transactionHash) =>
         \A p \in SameTriplePairs :
           ~(RowOfEvent(store[i], p[1]) /\ RowOfEvent(store[j], p[2]))
  /\ pc = "insert" =>
       \A p \in SameTriplePairs : \A i \in 1..Len(store) :
         p[2] = cur => ~RowOfEvent(store[i], p[1])

\* C11 witness: the row of EvDeposit is in the store and the select for
\* EvDepositOtherBody, which differs from it in its data alone, finds it.
C11_Witness ==
  /\ pc = "select"
  /\ cur = EvDepositOtherBody
  /\ Len(store) = 1
  /\ RowOfEvent(store[1], EvDeposit)
  /\ store[1].eventData # eventData
  /\ AlreadyStored(StoreSelect(store, EventIdOf(cur, eventType)))

\* C12 (as claimed): a classified event with fewer than 2 keys, or with fewer
\* data fields than its kind needs (deposit 2, htlc_created 3, htlc_redeemed
\* 1), fails to decode: it is never sent to the relayer, no select or insert
\* is made for it, and the loop goes on with the next event.
RequiredFields(type) ==
  CASE type = "deposit" -> 2
    [] type = "htlc_created" -> 3
    [] type = "htlc_redeemed" -> 1
TooShort(e, type) ==
  Len(e.keys) < 2 \/ Len(e.data) < RequiredFields(type)
C12_ShortEventIsDecodeError ==
  /\ (pc = "decode" /\ TooShort(cur, eventType)) =>
       Decode(cur, eventType) = Null
  /\ (InDelivery \/ pc \in {"select", "insert"}) => ~TooShort(cur, eventType)

\* C13: a sendEventToRelayer call made with RELAYER_URL or HMAC_SECRET absent
\* returns false from its first pass: no fetch() is called, no waitForRetry,
\* no body is built.
C13_MissingCredentialsNoAttempt ==
  ~CredentialsPresent =>
    /\ ~InDelivery
    /\ pc = "select" =>
         /\ ~relayerSuccess
         /\ attempt = 1 /\ fetches = 0 /\ waits = 0
         /\ sent = Null /\ lastOutcome = "none"
    /\ deliveredIds = {}

\* C13 witness: with the URL set and the secret absent a call for the
\* HTLCCreated event has returned false without a request.
C13_Witness ==
  /\ environment["RELAYER_URL"] /\ ~environment["HMAC_SECRET"]
  /\ pc = "select"
  /\ cur = EvHtlc
  /\ ~relayerSuccess
  /\ fetches = 0

\* C14: in a sendEventToRelayer call, waitForRetry is called after the failed
\* attempt k exactly when k < 3, whatever the kind of the failure, and the
\* next attempt k + 1 starts when its timer fires: a running attempt k has
\* k - 1 waits behind it, and a call that has returned after k attempts
\* (a success, or the 3rd failure) has made k - 1 waits.
AttemptEnds ==
  pc \in {"fetch", "text", "json"} /\ pc' \notin {"fetch", "text", "json"}
C14_WaitBetweenAttempts ==
  [][/\ AttemptEnds =>
          IF lastOutcome' = "success_true"
          THEN pc' = "select" /\ waits' = waits
          ELSE IF attempt < 3
               THEN pc' = "wait" /\ waits' = waits + 1
               ELSE pc' = "select" /\ waits' = waits
     /\ pc = "wait" /\ pc' # "wait" =>
          /\ pc' = "fetch" /\ attempt' = attempt + 1 /\ fetches' = fetches + 1
          /\ waits' = waits
     /\ pc' \in {"fetch", "text", "json"} =>
          attempt' = fetches' /\ waits' = attempt' - 1
     /\ pc' = "wait" => waits' = attempt' /\ attempt' < 3
     /\ (pc' = "select" /\ fetches' > 0) => waits' = fetches' - 1
    ]_vars

\* C14 witness: a call has returned false after three failed attempts, the
\* last one a non-2xx response, with two waits.
C14_Witness ==
  /\ pc = "select"
  /\ fetches = 3
  /\ waits = 2
  /\ lastOutcome = "non2xx"
  /\ ~relayerSuccess

\* C15: whatever sendEventToRelayer returns, transform() goes on to the store
\* for the same event: the select is made, and when it answers that the
\* eventId has no row the insert is issued, and an insert the table accepts
\* adds the row; relayerSuccess decides none of the three.
StoreErrorCaught == pc' = "loop" /\ diag' = "db_failed"
C15_PersistedWhateverDelivery ==
  [][/\ (InDelivery /\ ~InDelivery') =>
          /\ pc' = "select"
          /\ cur' = cur /\ eventData' = eventData
     /\ (/\ pc = "select" /\ pc' # "select"
         /\ ~HasRow(EventIdOf(cur, eventType))
         /\ ~StoreErrorCaught) =>
          /\ pc' = "insert"
          /\ cur' = cur /\ eventData' = eventData
     /\ (/\ pc = "insert" /\ pc' # "insert"
         /\ ~InsertRejected(store, RowOf(cur, eventType, eventData, swapId,
                                        blockNumber))
         /\ ~StoreErrorCaught) =>
          /\ Len(store') = Len(store) + 1
          /\ store'[Len(store')].eventId = EventIdOf(cur, eventType)
    ]_vars

\* C15 witness: the three attempts for the HTLCCreated event failed,
\* sendEventToRelayer returned false, and the insert of the event's row is
\* issued.
C15_Witness ==
  /\ pc = "insert"
  /\ cur = EvHtlc
  /\ ~relayerSuccess
  /\ fetches = 3
  /\ ~HasRow(EventIdOf(cur, eventType))

\* C16 (as claimed): a request of sendEventToRelayer is under its attempt's
\* timeout in every phase, before the response headers and while the body
\* is read: as long as the call awaits the relayer, the timer that aborts
\* the attempt is pending, so a relayer that stalls cannot hold the call.
AwaitsRelayer == pc \in {"fetch", "json", "text"}
C16_EveryPhaseUnderTimeout == AwaitsRelayer => abortPending

\* C17 (as claimed): two events of one kind and one transaction at different
\* positions get different eventIds, the select for one does not find the
\* row of the other, and the table takes the row of each: both are stored.
Sibling(e1, e2) ==
  /\ getEventType(e1) # NoEventType
  /\ getEventType(e1) = getEventType(e2)
  /\ e1.transactionHash = e2.transactionHash
  /\ e1.eventIndex # e2.eventIndex
HasSibling(e) == \E e2 \in Events : Sibling(e, e2)
C17_SiblingsBothStored ==
  /\ \A e1, e2 \in Events :
       Sibling(e1, e2) =>
         EventIdOf(e1, getEventType(e1)) # EventIdOf(e2, getEventType(e2))
  /\ (pc = "select" /\ HasSibling(cur)
      /\ ~HasRow(EventIdOf(cur, eventType))) =>
       ~AlreadyStored(StoreSelect(store, EventIdOf(cur, eventType)))
  /\ (pc = "insert" /\ HasSibling(cur) /\ ~TooShort(cur, eventType)) =>
       ~InsertRejected(store,
                       RowOf(cur, eventType, eventData, swapId, blockNumber))

\* C18: for every event past the classification, poolType is "fast" exactly
\* when its lower-cased address is the fast pool's and "standard" exactly
\* when it is the standard pool's, and one of the two is the case: the
\* last `return "fast"` of determinePoolType is not the branch that ran.
MatchesFast(e) == toLowerCase(e.address) = FAST_POOL_ADDRESS
MatchesStandard(e) == toLowerCase(e.address) = STANDARD_POOL_ADDRESS
FallbackTaken(e) == ~MatchesFast(e) /\ ~MatchesStandard(e)
C18_PoolTypeTotal ==
  InHandling =>
    /\ poolType = "fast" <=> MatchesFast(cur)
    /\ poolType = "standard" <=> MatchesStandard(cur)
    /\ ~FallbackTaken(cur)
    /\ sent # Null => sent.pool_type = poolType

\* C18 witness: the HTLCCreated event of the standard pool is being sent
\* with pool_type "standard".
C18_Witness ==
  /\ pc = "fetch"
  /\ cur = EvHtlc
  /\ poolType = "standard"
  /\ sent.pool_type = "standard"

\* C19 (as claimed): a Deposit whose data[0] is 2^32 or more, and an event
\* with a timelock or timestamp field of 2^64 or more, fail to decode: such
\* an event is never sent to the relayer and no select or insert is made
\* for it.
AtLeastPow2(v, w) == v \in WideLiterals /\ Len(HexValue[v]) * 16 > w
OutOfRange(e, type) ==
  CASE type = "deposit" ->
         AtLeastPow2(At(e.data, 0), 32) \/ AtLeastPow2(At(e.data, 1), 64)
    [] type = "htlc_created" ->
         AtLeastPow2(At(e.data, 1), 64) \/ AtLeastPow2(At(e.data, 2), 64)
    [] type = "htlc_redeemed" -> AtLeastPow2(At(e.data, 0), 64)
C19_OutOfRangeIsDecodeError ==
  /\ (pc = "decode" /\ OutOfRange(cur, eventType)) =>
       Decode(cur, eventType) = Null
  /\ (InDelivery \/ pc \in {"select", "insert"}) =>
       ~OutOfRange(cur, eventType)
  /\ \A i \in 1..Len(store) : \A e \in DecodeEvents :
       RowOfEvent(store[i], e) => ~OutOfRange(e, getEventType(e))

\* C20: no step of transform() deletes or changes a row of the store: the
\* rows a step finds are there after it, in their places and with every
\* field as it was, and a step changes the store at most by one added row.
C20_StoreOnlyAppended ==
  [][/\ Len(store') \in {Len(store), Len(store) + 1}
     /\ \A i \in 1..Len(store) : store'[i] = store[i]
    ]_vars

\* C20 witness: in a second call, after the row of EvDeposit was stored, the
\* event came again and was skipped as stored, and the next event's delivery
\* failed; the row is as it was.
C20_Witness ==
  /\ nCalls = 2
  /\ Len(store) = 1
  /\ RowOfEvent(store[1], EvDeposit)
  /\ diag = "already_in_db"
  /\ pc = "select"
  /\ ~relayerSuccess

\* C21: with a second run working on the table, also when both runs' selects
\* for one eventId find no row before either inserts, the store never holds
\* two rows with one eventId: the insert that comes second is refused by the
\* table, and the run that made it catches the error and goes on, never
\* ending in a thrown error.
C21_UniqueUnderInterleaving ==
  /\ \A i, j \in 1..Len(store) :
       store[i].eventId = store[j].eventId => i = j
  /\ CredentialsPresent => pc # "raised"
  /\ rival.pc \in {"idle", "insert"}
  /\ rival.diag = "refused" => HasRow(RivalRow(rival.cur).eventId)

\* C21 witness: both selects for EvDeposit found no row; this run's insert
\* stored the row, the second run's insert was refused, and the table has
\* the one row.
C21_Witness ==
  /\ rival.diag = "refused"
  /\ rival.cur = EvDeposit
  /\ diag = "stored"
  /\ Len(store) = 1
  /\ HasRow(EventIdOf(EvDeposit, "deposit"))


\* What a pass of the retry loop has of its own: where it stands, its
\* counters, its timer, its request and what it reports.
PassState ==
  <<pc, attempt, abortPending, fetches, waits, sent, lastOutcome,
    relayerSuccess, deliveredIds>>

\* A step in which a timer that no clearTimeout() reached goes off.
StaleTimerGoesOff ==
  \/ Armed(stale') < Armed(stale)
  \/ ~staleFired /\ staleFired'

\* C22: a timer that stayed armed because its pass's request raised holds the
\* controller of that pass alone: when it goes off, in a later pass or a later
\* call of sendEventToRelayer, the pass in progress goes on as it was (its
\* request is not aborted, it is not failed, its own timer stays as it is), and
\* no open request ever awaits a controller that a leaked timer holds.
C22_StaleTimerHarmless ==
  [][/\ StaleTimerGoesOff => UNCHANGED PassState
     /\ RequestOpen' => stale'.current = 0]_vars

\* A leaked timer went off while the second pass's request was open, and the
\* request is open still: its 2xx response is being read, one wait and one
\* failed pass behind it.
C22_Witness ==
  /\ staleFired
  /\ attempt = 2
  /\ pc = "json"
  /\ fetches = 2 /\ waits = 1
  /\ Armed(stale) = 0

====
